---- MODULE Spec2Model ----
(***************************************************************************)
(* A model of the whiteboard client of propimentel/flr-wb: the drawing     *)
(* utilities (getDistance, optimizePoints, smoothPoints, drawSmoothLine,   *)
(* resizeCanvas, clearCanvas), the Whiteboard component (gesture state,    *)
(* the two canvases, the resize timers, the board-clear handler) and the   *)
(* WhiteboardService it talks to (addStrokeChunk, subscribeToStrokes,      *)
(* clearAllStrokes) together with the remote stroke collection.            *)
(*                                                                         *)
(* Coordinates are integers counted in grid units, Unit grid units to the  *)
(* pixel, so that the half pixel of (10, 10.5) is a grid point.  Two       *)
(* elements of a point list at different positions are different objects,  *)
(* as they are for every list the component and the tests build: the       *)
(* reference comparison of optimizePoints is a comparison of positions.    *)
(***************************************************************************)
EXTENDS Integers, Sequences, FiniteSets, TLC

\* ------------------------------------------------------------------ bounds
Unit == 2
MaxStroke == 3
MaxSyncStroke == 2
MaxDocs == 2
MaxObserved == 1
MaxEnds == 2
MaxTime == 2
MaxTimers == 1
MaxPending == 2
MaxCoord == 1
MaxDistCoord == 4
MaxOptLen == 4
MaxSamples == 3
MaxSmoothLen == 5
MaxThreshold == 3
MaxWindow == 2
MaxClient == 2

\* ------------------------------------------------------- program constants
DefaultMinDistance == 2
DefaultPenSize == 5
MinCanvasSize == 50
ResizeSlack == 2
DefaultCanvasWidth == 300
DefaultCanvasHeight == 150

\* ------------------------------------------------------------------- types
Pt(x, y) == [x |-> x, y |-> y]

Abs(n) == IF n < 0 THEN -n ELSE n

\* The real number sqrt(n) of a natural n, kept exactly: its integer part
\* and what n exceeds the square of that part by (rem = 0: the root is the
\* integer floor itself).  Math.sqrt is correctly rounded, so it returns an
\* integer exactly when rem = 0.
SqrtOf(n) ==
  LET q == CHOOSE r \in 0..n : r * r <= n /\ (r + 1) * (r + 1) > n
  IN [floor |-> q, rem |-> n - q * q]

\* The number k as a distance.
Exactly(k) == [floor |-> k, rem |-> 0]

\* d >= m for a distance d and an integer m
DistGE(d, m) == d.floor >= m

\* ------------------------------------------------------- drawing utilities
getDistanceSkewed(p1, p2) ==
  SqrtOf((p2.x - p1.x) * (p2.x - p1.x) + p2.y * p2.y)

getDistance(p1, p2) ==
  SqrtOf((p2.x - p1.x) * (p2.x - p1.x) + (p2.y - p1.y) * (p2.y - p1.y))

\* The loop of optimizePoints over the positions i..Len(points); kept is
\* the list of the positions retained so far (optimized, as positions).
RECURSIVE OptimizeLoop(_, _, _, _)
OptimizeLoop(points, minDistance, i, kept) ==
  IF i > Len(points) THEN kept
  ELSE IF DistGE(getDistance(points[kept[Len(kept)]], points[i]), minDistance)
       THEN OptimizeLoop(points, minDistance, i + 1, Append(kept, i))
       ELSE OptimizeLoop(points, minDistance, i + 1, kept)

optimizePointsNoForce(points, minDistance) ==
  IF Len(points) <= 1 THEN points
  ELSE LET kept == OptimizeLoop(points, minDistance, 2, <<1>>)
       IN [k \in 1..Len(kept) |-> points[kept[k]]]

optimizePointsKeepAll(points, minDistance) == points

optimizePoints(points, minDistance) ==
  IF Len(points) <= 1 THEN points
  ELSE LET kept == OptimizeLoop(points, minDistance, 2, <<1>>)
           all  == IF kept[Len(kept)] # Len(points)
                   THEN Append(kept, Len(points)) ELSE kept
       IN [k \in 1..Len(all) |-> points[all[k]]]

\* A quotient n / d of the moving average, kept as the pair.
Frac(n, d) == [num |-> n, den |-> d]

RECURSIVE WindowSum(_, _, _, _)
WindowSum(points, j, last, coord) ==
  IF j > last THEN 0
  ELSE (IF coord = "x" THEN points[j].x ELSE points[j].y)
       + WindowSum(points, j + 1, last, coord)

\* Positions are 1-based here: the loop variable i of the source is i - 1.
smoothPointsShortWindow(points, windowSize) ==
  IF Len(points) <= windowSize THEN points
  ELSE [i \in 1..Len(points) |->
          IF i - 1 >= windowSize /\ i - 1 < Len(points) - windowSize
          THEN [x |-> Frac(WindowSum(points, i - windowSize, i + windowSize - 1, "x"),
                           windowSize * 2 + 1),
                y |-> Frac(WindowSum(points, i - windowSize, i + windowSize - 1, "y"),
                           windowSize * 2 + 1)]
          ELSE points[i]]

smoothPoints(points, windowSize) ==
  IF Len(points) <= windowSize THEN points
  ELSE [i \in 1..Len(points) |->
          IF i - 1 >= windowSize /\ i - 1 < Len(points) - windowSize
          THEN [x |-> Frac(WindowSum(points, i - windowSize, i + windowSize, "x"),
                           windowSize * 2 + 1),
                y |-> Frac(WindowSum(points, i - windowSize, i + windowSize, "y"),
                           windowSize * 2 + 1)]
          ELSE points[i]]

\* A pointer event: a mouse event carries clientX and clientY itself, a
\* touch event the lists touches and changedTouches.
MouseEvent(x, y) ==
  [type |-> "mouse", clientX |-> x, clientY |-> y,
   touches |-> <<>>, changedTouches |-> <<>>]

TouchEvent(touches, changedTouches) ==
  [type |-> "touch", clientX |-> 0, clientY |-> 0,
   touches |-> touches, changedTouches |-> changedTouches]

\* event.touches[0] || event.changedTouches[0]; a touch event without any
\* touch has none and the property access throws.
FirstTouch(event) ==
  IF event.touches # <<>> THEN <<event.touches[1]>>
  ELSE IF event.changedTouches # <<>> THEN <<event.changedTouches[1]>>
  ELSE <<>>

\* A product of an integer and a quotient.
Times(k, q) == Frac(k * q.num, q.den)

\* What a call that throws leaves instead of a result.
TypeError == [error |-> "TypeError"]

getPointerPositionChangedFirst(event, target) ==
  LET scaleX == Frac(target.width, target.rect.width)
      scaleY == Frac(target.height, target.rect.height)
      touch  == IF event.changedTouches # <<>> THEN <<event.changedTouches[1]>>
                ELSE FirstTouch(event)
  IN IF event.type = "touch" /\ touch = <<>> THEN <<TypeError>>
     ELSE LET clientX == IF event.type = "touch" THEN touch[1].clientX ELSE event.clientX
              clientY == IF event.type = "touch" THEN touch[1].clientY ELSE event.clientY
          IN << [x |-> Times(clientX - target.rect.left, scaleX),
                 y |-> Times(clientY - target.rect.top, scaleY)] >>

\* The result is a list of one point, or of the error thrown.
getPointerPosition(event, target) ==
  LET scaleX == Frac(target.width, target.rect.width)
      scaleY == Frac(target.height, target.rect.height)
      touch  == FirstTouch(event)
  IN IF event.type = "touch" /\ touch = <<>> THEN <<TypeError>>
     ELSE LET clientX == IF event.type = "touch" THEN touch[1].clientX ELSE event.clientX
              clientY == IF event.type = "touch" THEN touch[1].clientY ELSE event.clientY
          IN << [x |-> Times(clientX - target.rect.left, scaleX),
                 y |-> Times(clientY - target.rect.top, scaleY)] >>

\* ---------------------------------------------------------------- canvases
\* A canvas: its backing-store size, its CSS size (0: no pixel size set, the
\* element is 100% of its container), the uniform scale of its context's
\* transform, and the marks on it, oldest first.  A mark is one stroke()
\* call: the points, colour and width of the path, the pixel scale k it was
\* drawn at, and the id and timestamp of the chunk it renders (0 for the
\* stroke that is being drawn).
\* A ratio (a device pixel ratio, a context's scale) is a quotient in lowest
\* terms.
RECURSIVE Gcd(_, _)
Gcd(a, b) == IF b = 0 THEN a ELSE Gcd(b, a % b)

Ratio(n, d) == IF n = 0 THEN Frac(0, 1) ELSE Frac(n \div Gcd(n, d), d \div Gcd(n, d))

RatioTimes(a, b) == Ratio(a.num * b.num, a.den * b.den)

\* window.devicePixelRatio || 1
RatioOr1(ratio) == IF ratio.num = 0 THEN Ratio(1, 1) ELSE ratio

NewCanvas ==
  [width |-> DefaultCanvasWidth, height |-> DefaultCanvasHeight,
   cssW |-> 0, cssH |-> 0, scale |-> Ratio(1, 1), content |-> <<>>]

clearCanvas(canvas) == [canvas EXCEPT !.content = <<>>]

\* A call on the 2D context: its name and its arguments; coordinates are
\* quotients.
Cmd(op, args) == [op |-> op, args |-> args]

Whole(n) == Frac(n, 1)

\* The quadraticCurveTo calls of the loop of drawSmoothLine, i the loop
\* variable (0-based, as in the source).
RECURSIVE CurveLoop(_, _)
CurveLoop(points, i) ==
  IF i >= Len(points) - 1 THEN <<>>
  ELSE << Cmd("quadraticCurveTo",
              << Whole(points[i + 1].x), Whole(points[i + 1].y),
                 Frac(points[i + 1].x + points[i + 2].x, 2),
                 Frac(points[i + 1].y + points[i + 2].y, 2) >>) >>
       \o CurveLoop(points, i + 1)

drawSmoothLineCommandsNoLastSegment(points, color, size) ==
  IF Len(points) < 2 THEN <<>>
  ELSE << Cmd("strokeStyle", <<color>>), Cmd("lineWidth", <<size>>),
          Cmd("lineCap", <<"round">>), Cmd("lineJoin", <<"round">>),
          Cmd("beginPath", <<>>),
          Cmd("moveTo", << Whole(points[1].x), Whole(points[1].y) >>) >>
       \o CurveLoop(points, 1)
       \o << Cmd("stroke", <<>>) >>

\* The calls drawSmoothLine makes on its context, in order.
drawSmoothLineCommands(points, color, size) ==
  IF Len(points) < 2 THEN <<>>
  ELSE << Cmd("strokeStyle", <<color>>), Cmd("lineWidth", <<size>>),
          Cmd("lineCap", <<"round">>), Cmd("lineJoin", <<"round">>),
          Cmd("beginPath", <<>>) >>
       \o (IF Len(points) = 2
           THEN << Cmd("moveTo", << Whole(points[1].x), Whole(points[1].y) >>),
                   Cmd("lineTo", << Whole(points[2].x), Whole(points[2].y) >>) >>
           ELSE << Cmd("moveTo", << Whole(points[1].x), Whole(points[1].y) >>) >>
                \o CurveLoop(points, 1)
                \o << Cmd("quadraticCurveTo",
                          << Whole(points[Len(points) - 1].x),
                             Whole(points[Len(points) - 1].y),
                             Whole(points[Len(points)].x),
                             Whole(points[Len(points)].y) >>) >>)
       \o << Cmd("stroke", <<>>) >>

drawSmoothLineDot(ctxScale, points, color, size) ==
  IF points = <<>> THEN <<>>
  ELSE << [points |-> points, color |-> color, size |-> size, k |-> ctxScale] >>

\* The marks drawSmoothLine leaves through a context of the given scale: one
\* for its stroke() call.
drawSmoothLine(ctxScale, points, color, size) ==
  LET commands == drawSmoothLineCommands(points, color, size)
  IN IF \A c \in DOMAIN commands : commands[c].op # "stroke"
     THEN <<>>
     ELSE << [points |-> points, color |-> color, size |-> size, k |-> ctxScale] >>

\* The marks of one chunk, labelled with the chunk they render.
StrokeMarks(ctxScale, stroke) ==
  LET marks == drawSmoothLine(ctxScale, stroke.points, stroke.color, stroke.size)
  IN [m \in 1..Len(marks) |->
        [points |-> marks[m].points, color |-> marks[m].color,
         size |-> marks[m].size, k |-> marks[m].k,
         id |-> stroke.id, timestamp |-> stroke.timestamp]]

RECURSIVE DrawAll(_, _, _)
DrawAll(ctxScale, strokes, i) ==
  IF i > Len(strokes) THEN <<>>
  ELSE StrokeMarks(ctxScale, strokes[i]) \o DrawAll(ctxScale, strokes, i + 1)

\* ctx.drawImage(source, 0, 0) on target: the source's marks come out
\* magnified by the target context's scale, on top of what target holds.
drawImage(target, source) ==
  [target EXCEPT !.content = target.content \o
     [m \in 1..Len(source.content) |->
        [source.content[m] EXCEPT
           !.k = RatioTimes(source.content[m].k, target.scale)]]]

\* Math.round(a / b) for naturals a and b > 0
RoundDiv(a, b) == (2 * a + b) \div (2 * b)

\* What assigning the number n / d to canvas.width or canvas.height stores:
\* the attribute is an unsigned long, the fraction is cut off.
ToUnsignedLong(n, d) == n \div d

\* resizeCanvas reaches its assignments: the container is large enough and
\* the display size the canvas has now is 2 or more off in a dimension.
resizeCanvasWrites(canvas, container, devicePixelRatio) ==
  LET ratio  == RatioOr1(devicePixelRatio)
      rectW  == IF canvas.cssW # 0 THEN canvas.cssW ELSE container.w
      rectH  == IF canvas.cssH # 0 THEN canvas.cssH ELSE container.h
      width  == IF container.w # 0 THEN container.w ELSE rectW
      height == IF container.h # 0 THEN container.h ELSE rectH
      currentDisplayWidth  == RoundDiv(canvas.width * ratio.den, ratio.num)
      currentDisplayHeight == RoundDiv(canvas.height * ratio.den, ratio.num)
  IN /\ ~(width = 0 \/ height = 0 \/ width < MinCanvasSize \/ height < MinCanvasSize)
     /\ ~(/\ Abs(currentDisplayWidth - width) < ResizeSlack
          /\ Abs(currentDisplayHeight - height) < ResizeSlack)

resizeCanvas(canvas, container, devicePixelRatio) ==
  LET ratio  == RatioOr1(devicePixelRatio)
      width  == IF container.w # 0 THEN container.w
                ELSE IF canvas.cssW # 0 THEN canvas.cssW ELSE container.w
      height == IF container.h # 0 THEN container.h
                ELSE IF canvas.cssH # 0 THEN canvas.cssH ELSE container.h
  IN IF ~resizeCanvasWrites(canvas, container, devicePixelRatio)
     THEN canvas
     ELSE [width |-> ToUnsignedLong(width * ratio.num, ratio.den),
           height |-> ToUnsignedLong(height * ratio.num, ratio.den),
           cssW |-> width, cssH |-> height,
           scale |-> ratio, content |-> <<>>]

syncOffscreenCanvasSize(visible, offscr, devicePixelRatio) ==
  IF offscr.width # visible.width \/ offscr.height # visible.height
  THEN [width |-> visible.width, height |-> visible.height,
        cssW |-> visible.cssW, cssH |-> visible.cssH,
        scale |-> RatioOr1(devicePixelRatio), content |-> <<>>]
  ELSE offscr

\* renderAllStrokes as the closure that captured the list strokes.  calls
\* lists the drawing calls made on the two contexts, threw tells whether
\* one of them raised.
renderAllStrokes(strokes, visible, offscr, devicePixelRatio) ==
  LET off1 == syncOffscreenCanvasSize(visible, offscr, devicePixelRatio)
  IN IF visible.width = 0 \/ visible.height = 0 \/ off1.width = 0 \/ off1.height = 0
     THEN [canvas |-> visible, offscreen |-> off1, calls |-> <<>>, threw |-> FALSE]
     ELSE LET off2 == [clearCanvas(off1) EXCEPT
                         !.content = DrawAll(off1.scale, strokes, 1)]
              vis2 == drawImage(clearCanvas(visible), off2)
          IN [canvas |-> vis2, offscreen |-> off2,
              calls |-> <<"clearRect", "clearRect">>
                        \o [i \in 1..Len(off2.content) |-> "stroke"]
                        \o <<"drawImage">>,
              threw |-> FALSE]

\* The in-progress stroke as drawSmoothLine draws it on the visible canvas.
LiveStroke(ds, pen) ==
  [id |-> 0, timestamp |-> 0, points |-> ds.currentStroke,
   color |-> pen.color, size |-> pen.penSize]

renderCurrentStrokeOnOffscreen(ds, pen, visible, offscr, devicePixelRatio) ==
  IF ~ds.isDrawing \/ Len(ds.currentStroke) < 2
  THEN [canvas |-> visible, offscreen |-> offscr, calls |-> <<>>, threw |-> FALSE]
  ELSE LET off1 == syncOffscreenCanvasSize(visible, offscr, devicePixelRatio)
           off2 == [off1 EXCEPT !.content =
                      off1.content \o StrokeMarks(off1.scale, LiveStroke(ds, pen))]
           vis1 == drawImage(clearCanvas(visible), off2)
       IN [canvas |-> vis1, offscreen |-> off2,
           calls |-> <<"clearRect", "stroke", "drawImage">>, threw |-> FALSE]

\* renderCurrentStroke has no guard on the dimensions: with an offscreen
\* canvas of width or height 0 after the sync, clearRect runs and drawImage
\* raises InvalidStateError, which ends the callback.
renderCurrentStroke(ds, pen, visible, offscr, devicePixelRatio) ==
  IF ~ds.isDrawing \/ Len(ds.currentStroke) < 2
  THEN [canvas |-> visible, offscreen |-> offscr, calls |-> <<>>, threw |-> FALSE]
  ELSE LET off1 == syncOffscreenCanvasSize(visible, offscr, devicePixelRatio)
       IN IF off1.width = 0 \/ off1.height = 0
          THEN [canvas |-> clearCanvas(visible), offscreen |-> off1,
                calls |-> <<"clearRect", "drawImage">>, threw |-> TRUE]
          ELSE LET vis1 == drawImage(clearCanvas(visible), off1)
                   vis2 == [vis1 EXCEPT !.content =
                              vis1.content
                              \o StrokeMarks(visible.scale, LiveStroke(ds, pen))]
               IN [canvas |-> vis2, offscreen |-> off1,
                   calls |-> <<"clearRect", "drawImage", "stroke">>,
                   threw |-> FALSE]

\* ------------------------------------------------------------------- state
VARIABLES
  drawingState,       \* useState<DrawingState>
  settings,           \* useState<WhiteboardSettings>
  mounted,            \* the component is mounted: canvasRef.current is set
  boardId,            \* the boardId prop
  listeners,          \* the boards with a live onSnapshot listener of this
                      \* component
  allStrokes,         \* useState<StrokeChunk[]>
  animationFrameRef,  \* "null", or "frame": an animation frame is requested
  pendingFrames,      \* the number of requested animation frames that were
                      \* neither run nor cancelled
  canvas,             \* canvasRef.current, the visible canvas
  offscreen,          \* offscreenCanvasRef.current, the persistent layer
  devicePixelRatio,   \* window.devicePixelRatio
  containerSize,      \* the layout box of the canvas container
  timers,             \* pending handleResize timeouts, oldest first: each
                      \* holds the list its renderAllStrokes closure captured
  store,              \* the documents of boards/{boardId}/strokes
  inflight,           \* the chunks passed to addStrokeChunk whose addDoc is
                      \* not answered yet, in call order
  snapshotPending,    \* the live query has a change to deliver
  nextDocId,          \* the store's next document id
  remoteAdds,         \* chunks created by the other client so far
  now,                \* Date.now()
  clearState,         \* handleClearCanvas: its position, the deletes under way
  gestures,           \* pointer-downs so far
  observed,           \* of the latest gesture: the raw samples, the
                      \* terminating events, the chunks passed to
                      \* addStrokeChunk, the settings at its pointer-down
  util                \* a call of a drawing utility and its result

vars == <<drawingState, settings, mounted, boardId, listeners, allStrokes, animationFrameRef, pendingFrames, canvas,
          offscreen, devicePixelRatio, containerSize, timers, store, inflight,
          snapshotPending, nextDocId, remoteAdds, now, clearState, gestures,
          observed, util>>

BoardId == "board"
LocalUid == "me"
RemoteUid == "peer"
EmptyId == 0

\* The canvas-space points the pointer is sampled at in the gesture runs:
\* (10,10), (10,10.5) and (20,20).
PointSet ==
  { Pt(10 * Unit, 10 * Unit),
    Pt(10 * Unit, 10 * Unit + Unit \div 2),
    Pt(20 * Unit, 20 * Unit) }

\* The points the pointer is sampled at in the runs of the whole component.
SyncPoints == { Pt(20 * Unit, 20 * Unit) }

\* The layout boxes the container can take.
Sizes == { [w |-> 40, h |-> 40], [w |-> 120, h |-> 90], [w |-> 200, h |-> 90] }


\* The stroke the other client draws.
RemotePoints == << Pt(0, 0), Pt(4 * Unit, 0) >>

IdleDrawingState ==
  [isDrawing |-> FALSE, currentStroke |-> <<>>, currentStrokeId |-> 0,
   chunkIndex |-> 0]

NoUtil == [fn |-> "none", points |-> <<>>, param |-> 0, done |-> FALSE,
           result |-> <<>>]

NothingObserved ==
  [samples |-> <<>>, ends |-> 0, submitted |-> <<>>,
   pen |-> [penSize |-> DefaultPenSize, color |-> "#000000"]]

\* ------------------------------------------------------ WhiteboardService
RECURSIVE OrderByArrival(_)
OrderByArrival(docs) ==
  IF docs = {} THEN <<>>
  ELSE LET first == CHOOSE d \in docs : \A e \in docs : d.docId <= e.docId
       IN <<first>> \o OrderByArrival(docs \ {first})

\* orderBy('timestamp', 'asc'): documents by timestamp, equal timestamps by
\* document id.
RECURSIVE OrderByTimestamp(_)
OrderByTimestamp(docs) ==
  IF docs = {} THEN <<>>
  ELSE LET first == CHOOSE d \in docs : \A e \in docs :
                       \/ d.data.timestamp < e.data.timestamp
                       \/ d.data.timestamp = e.data.timestamp /\ d.docId <= e.docId
       IN <<first>> \o OrderByTimestamp(docs \ {first})

strokesQueryUnordered(docs) == OrderByArrival(docs)

\* query(strokesRef, orderBy('timestamp', 'asc'))
strokesQuery(docs) == OrderByTimestamp(docs)

\* The list the snapshot listener of subscribeToStrokes hands to the callback.
subscribeToStrokes(docs) ==
  LET ordered == strokesQuery(docs)
  IN [i \in 1..Len(ordered) |->
        [id |-> ordered[i].docId,
         boardId |-> ordered[i].data.boardId,
         uid |-> ordered[i].data.uid,
         timestamp |-> ordered[i].data.timestamp,
         points |-> ordered[i].data.points,
         color |-> ordered[i].data.color,
         size |-> ordered[i].data.size,
         chunkIndex |-> ordered[i].data.chunkIndex,
         strokeComplete |-> ordered[i].data.strokeComplete]]

RemoveAt(seq, i) == SubSeq(seq, 1, i - 1) \o SubSeq(seq, i + 1, Len(seq))

\* ----------------------------------------------------------- the component
\* The effect that keeps the animation loop: a frame is requested while a
\* gesture is active and cancelled otherwise.
AnimationEffectNeverCancels(ds) == "frame"

AnimationEffect(ds) == IF ds.isDrawing THEN "frame" ELSE "null"

\* The cleanup of that effect: a requested frame is cancelled.
AnimationCleanup(frame) == "null"

\* cancelAnimationFrame(animationFrameRef.current) in the cleanup: the frame
\* the ref names, if it is still to run, is run no more.
CancelFrameForgets(frame, frames) == frames

CancelFrame(frame, frames) == IF frame = "frame" THEN frames - 1 ELSE frames

\* requestAnimationFrame(animate) in the body of the effect.
RequestFrame(ds, frames) == IF ds.isDrawing THEN frames + 1 ELSE frames

\* The documents of boards/{board}/strokes.
Collection(docs, board) == {d \in docs : d.data.boardId = board}

\* The subscription effect: subscribeToStrokes(boardId, handleStrokeUpdate)
\* adds a listener; the cleanup of the effect calls the handle it returned.
Subscribe(subs, board) == subs \cup {board}

UnsubscribeLeaks(subs, board) == subs

Unsubscribe(subs, board) == subs \ {board}

StartDrawingState(prev, pointerPosition, strokeId) ==
  [prev EXCEPT !.isDrawing = TRUE, !.currentStroke = <<pointerPosition>>,
               !.currentStrokeId = strokeId, !.chunkIndex = 0]

DrawStateNoDecimation(prev, pointerPosition) ==
  [prev EXCEPT !.currentStroke = Append(prev.currentStroke, pointerPosition)]

DrawState(prev, pointerPosition) ==
  [prev EXCEPT !.currentStroke =
     optimizePoints(Append(prev.currentStroke, pointerPosition),
                    DefaultMinDistance * Unit)]

EndDrawingGuardAlways(ds) == TRUE

\* endDrawing goes on only with a non-empty buffer.
EndDrawingGuard(ds) == Len(ds.currentStroke) # 0

EndDrawingChunk(ds, pen, board, time) ==
  [id |-> EmptyId, boardId |-> board, uid |-> LocalUid, timestamp |-> time,
   points |-> ds.currentStroke, color |-> pen.color, size |-> pen.penSize,
   chunkIndex |-> ds.chunkIndex, strokeComplete |-> TRUE]

EndDrawingStateKeepStroke(prev) == [prev EXCEPT !.isDrawing = FALSE]

EndDrawingState(prev) ==
  [prev EXCEPT !.isDrawing = FALSE, !.currentStroke = <<>>,
               !.currentStrokeId = 0, !.chunkIndex = 0]

\* -------------------------------------------------------------------- Init
\* The state after the component has mounted: the mount effects have created
\* the offscreen canvas, called handleResize once (one timer is pending),
\* run a first recompose of the empty list and subscribed to the board.
InitComponentAt(size, ratio) ==
  /\ drawingState = IdleDrawingState
  /\ settings = [penSize |-> DefaultPenSize, color |-> "#000000"]
  /\ mounted = TRUE
  /\ boardId = BoardId
  /\ listeners = {BoardId}
  /\ allStrokes = <<>>
  /\ animationFrameRef = "null"
  /\ pendingFrames = 0
  /\ canvas = NewCanvas
  /\ offscreen = NewCanvas
  /\ devicePixelRatio = ratio
  /\ containerSize = size
  /\ timers = << <<>> >>
  /\ store = {}
  /\ inflight = <<>>
  /\ snapshotPending = TRUE
  /\ nextDocId = 1
  /\ remoteAdds = 0
  /\ now = 1
  /\ clearState = [pc |-> "idle", toDelete |-> {}, board |-> BoardId]
  /\ gestures = 0
  /\ observed = NothingObserved

\* A 120 x 90 container on a display of device pixel ratio 2.
InitComponent == InitComponentAt([w |-> 120, h |-> 90], Ratio(2, 1))

Init == InitComponent /\ util = NoUtil

\* ----------------------------------------------------------------- gestures
\* onMouseDown / onTouchStart
startDrawing(pointerPosition) ==
  /\ mounted
  /\ gestures' = gestures + 1
  /\ drawingState' = StartDrawingState(drawingState, pointerPosition, gestures + 1)
  /\ animationFrameRef' = AnimationEffect(drawingState')
  /\ pendingFrames' = RequestFrame(drawingState',
                       CancelFrame(animationFrameRef, pendingFrames))
  /\ UNCHANGED <<settings, mounted, boardId, listeners, allStrokes, canvas, offscreen, devicePixelRatio,
                 containerSize, timers, store, inflight, snapshotPending,
                 nextDocId, remoteAdds, now, clearState, util>>

\* onMouseMove / onTouchMove; without an active gesture the handler returns
\* at once and nothing changes.
draw(pointerPosition) ==
  /\ mounted
  /\ drawingState.isDrawing
  /\ Len(drawingState.currentStroke) < MaxStroke
  /\ drawingState' = DrawState(drawingState, pointerPosition)
  /\ animationFrameRef' = AnimationEffect(drawingState')
  /\ pendingFrames' = RequestFrame(drawingState',
                       CancelFrame(animationFrameRef, pendingFrames))
  /\ UNCHANGED <<settings, mounted, boardId, listeners, allStrokes, canvas, offscreen, devicePixelRatio,
                 containerSize, timers, store, inflight, snapshotPending,
                 nextDocId, remoteAdds, now, clearState, gestures, util>>

\* onMouseUp / onMouseLeave / onTouchEnd / onTouchCancel.  now is what
\* Date.now() answers; the clock has moved on when it is read again.
endDrawing ==
  /\ mounted
  /\ IF EndDrawingGuard(drawingState)
     THEN /\ inflight' = Append(inflight,
                                EndDrawingChunk(drawingState, settings, boardId, now))
          /\ drawingState' = EndDrawingState(drawingState)
          /\ animationFrameRef' = AnimationEffect(drawingState')
          /\ pendingFrames' = RequestFrame(drawingState',
                               CancelFrame(animationFrameRef, pendingFrames))
          /\ now' = now + 1
     ELSE UNCHANGED <<inflight, drawingState, animationFrameRef, pendingFrames, now>>
  /\ UNCHANGED <<settings, mounted, boardId, listeners, allStrokes, canvas, offscreen, devicePixelRatio,
                 containerSize, timers, store, snapshotPending, nextDocId,
                 remoteAdds, clearState, gestures, util>>

\* The requested animation frame runs: animate calls renderCurrentStroke
\* (which returns at once when canvasRef.current is null) and requests the
\* next frame.
animate ==
  /\ pendingFrames > 0
  /\ IF mounted
     THEN LET r == renderCurrentStroke(drawingState, settings, canvas, offscreen,
                                       devicePixelRatio)
          IN /\ canvas' = r.canvas
             /\ offscreen' = r.offscreen
             /\ animationFrameRef' = IF r.threw THEN "null" ELSE "frame"
             /\ pendingFrames' = IF r.threw THEN pendingFrames - 1
                                 ELSE pendingFrames
     ELSE UNCHANGED <<canvas, offscreen, animationFrameRef, pendingFrames>>
  /\ UNCHANGED <<drawingState, settings, mounted, boardId, listeners, allStrokes,
                 devicePixelRatio, containerSize, timers, store, inflight,
                 snapshotPending, nextDocId, remoteAdds, now, clearState,
                 gestures, observed, util>>

\* The pointer events with the gesture observed: the raw samples of the
\* gesture, its terminating events and its addStrokeChunk calls.
pointerDown(p) ==
  /\ gestures < MaxObserved
  /\ startDrawing(p)
  /\ observed' = [samples |-> <<p>>, ends |-> 0, submitted |-> <<>>,
                  pen |-> settings]

pointerMove(p) ==
  /\ Len(observed.samples) < MaxStroke
  /\ draw(p)
  /\ observed' = [observed EXCEPT !.samples = Append(@, p)]

pointerUp ==
  /\ observed.ends < MaxEnds
  /\ endDrawing
  /\ observed' = [observed EXCEPT
                    !.ends = @ + 1,
                    !.submitted = @ \o SubSeq(inflight', Len(inflight) + 1,
                                              Len(inflight'))]

\* ------------------------------------------------------------------ resizes
\* The container changes size: the ResizeObserver (or the window's resize
\* event) calls handleResize, which sets a timer.
handleResize(size) ==
  /\ mounted
  /\ size # containerSize
  /\ containerSize' = size
  /\ timers' = Append(timers, allStrokes)
  /\ UNCHANGED <<drawingState, settings, mounted, boardId, listeners, allStrokes, animationFrameRef, pendingFrames, canvas,
                 offscreen, devicePixelRatio, store, inflight, snapshotPending,
                 nextDocId, remoteAdds, now, clearState, gestures, observed, util>>

\* The oldest timer fires: resize the visible canvas, make the offscreen one
\* match it, recompose with the closure the timer captured.  After the
\* unmount canvasRef.current is null and the callback does nothing.
resizeTimer ==
  /\ timers # <<>>
  /\ IF mounted
     THEN LET vis1 == resizeCanvas(canvas, containerSize, devicePixelRatio)
              off1 == syncOffscreenCanvasSize(vis1, offscreen, devicePixelRatio)
              r    == renderAllStrokes(Head(timers), vis1, off1, devicePixelRatio)
          IN /\ canvas' = r.canvas
             /\ offscreen' = r.offscreen
     ELSE UNCHANGED <<canvas, offscreen>>
  /\ timers' = Tail(timers)
  /\ UNCHANGED <<drawingState, settings, mounted, boardId, listeners, allStrokes, animationFrameRef, pendingFrames,
                 devicePixelRatio, containerSize, store, inflight,
                 snapshotPending, nextDocId, remoteAdds, now, clearState,
                 gestures, observed, util>>

\* ---------------------------------------------------------------- the store
\* The addDoc of an addStrokeChunk call reaches the store and is persisted.
addStrokeChunkAccepted(i) ==
  /\ i \in 1..Len(inflight)
  /\ store' = store \cup {[docId |-> nextDocId, data |-> inflight[i]]}
  /\ nextDocId' = nextDocId + 1
  /\ inflight' = RemoveAt(inflight, i)
  /\ snapshotPending' = TRUE
  /\ UNCHANGED <<drawingState, settings, mounted, boardId, listeners, allStrokes, animationFrameRef, pendingFrames, canvas,
                 offscreen, devicePixelRatio, containerSize, timers, remoteAdds,
                 now, clearState, gestures, observed, util>>

addStrokeChunkRejectedRestores(i) ==
  /\ i \in 1..Len(inflight)
  /\ inflight' = RemoveAt(inflight, i)
  /\ drawingState' = [drawingState EXCEPT !.currentStroke = inflight[i].points]
  /\ UNCHANGED <<settings, mounted, boardId, listeners, allStrokes,
                 animationFrameRef, pendingFrames, canvas, offscreen, devicePixelRatio,
                 containerSize, timers, store, snapshotPending, nextDocId,
                 remoteAdds, now, clearState, gestures, observed, util>>

\* The addDoc fails: addStrokeChunk rethrows, endDrawing has not awaited it,
\* and nobody calls it again.
addStrokeChunkRejected(i) ==
  /\ i \in 1..Len(inflight)
  /\ inflight' = RemoveAt(inflight, i)
  /\ UNCHANGED <<drawingState, settings, mounted, boardId, listeners, allStrokes, animationFrameRef, pendingFrames, canvas,
                 offscreen, devicePixelRatio, containerSize, timers, store,
                 snapshotPending, nextDocId, remoteAdds, now, clearState,
                 gestures, observed, util>>

\* The other client persists a stroke it stamped with its own clock.
remoteAdd(timestamp) ==
  /\ gestures + remoteAdds < MaxDocs
  /\ remoteAdds' = remoteAdds + 1
  /\ store' = store \cup
       {[docId |-> nextDocId,
         data |-> [id |-> EmptyId, boardId |-> BoardId, uid |-> RemoteUid,
                   timestamp |-> timestamp, points |-> RemotePoints,
                   color |-> "#000000", size |-> DefaultPenSize,
                   chunkIndex |-> 0, strokeComplete |-> TRUE]]}
  /\ nextDocId' = nextDocId + 1
  /\ snapshotPending' = TRUE
  /\ UNCHANGED <<drawingState, settings, mounted, boardId, listeners, allStrokes, animationFrameRef, pendingFrames, canvas,
                 offscreen, devicePixelRatio, containerSize, timers, inflight,
                 now, clearState, gestures, observed, util>>

\* The snapshot listener of one of the component's subscriptions runs:
\* handleStrokeUpdate replaces allStrokes, the component renders again, and
\* its effects run: the resize effect calls handleResize (a new timer) and
\* the recompose effect renderAllStrokes.
handleStrokeUpdate ==
  /\ snapshotPending
  /\ snapshotPending' = FALSE
  /\ \E board \in listeners :
       allStrokes' = subscribeToStrokes(Collection(store, board))
  /\ timers' = Append(timers, allStrokes')
  /\ LET r == renderAllStrokes(allStrokes', canvas, offscreen, devicePixelRatio)
     IN /\ canvas' = r.canvas
        /\ offscreen' = r.offscreen
  /\ UNCHANGED <<drawingState, settings, mounted, boardId, listeners, animationFrameRef, pendingFrames, devicePixelRatio,
                 containerSize, store, inflight, nextDocId, remoteAdds, now,
                 clearState, gestures, observed, util>>

\* ------------------------------------------------------------- board clear
\* The Clear button: handleClearCanvas calls clearAllStrokes and waits.
handleClearCanvas ==
  /\ mounted
  /\ clearState.pc \in {"idle", "done", "failed"}
  /\ clearState.toDelete = {}
  /\ clearState' = [pc |-> "enumerating", toDelete |-> {}, board |-> boardId]
  /\ UNCHANGED <<drawingState, settings, mounted, boardId, listeners, allStrokes, animationFrameRef, pendingFrames, canvas,
                 offscreen, devicePixelRatio, containerSize, timers, store,
                 inflight, snapshotPending, nextDocId, remoteAdds, now,
                 gestures, observed, util>>

\* clearAllStrokes: getDocs answers with the documents of the board, and one
\* deleteDoc per document is sent.
clearAllStrokesEnumerate ==
  /\ clearState.pc = "enumerating"
  /\ Collection(store, clearState.board) # {}
  /\ clearState' = [clearState EXCEPT
                      !.pc = "deleting",
                      !.toDelete = {d.docId : d \in Collection(store, clearState.board)}]
  /\ UNCHANGED <<drawingState, settings, mounted, boardId, listeners, allStrokes, animationFrameRef, pendingFrames, canvas,
                 offscreen, devicePixelRatio, containerSize, timers, store,
                 inflight, snapshotPending, nextDocId, remoteAdds, now,
                 gestures, observed, util>>

\* One deleteDoc is carried out by the store.
clearAllStrokesDelete(id) ==
  /\ id \in clearState.toDelete
  /\ clearState' = [clearState EXCEPT !.toDelete = @ \ {id}]
  /\ store' = {d \in store : d.docId # id}
  /\ snapshotPending' = TRUE
  /\ UNCHANGED <<drawingState, settings, mounted, boardId, listeners, allStrokes, animationFrameRef, pendingFrames, canvas,
                 offscreen, devicePixelRatio, containerSize, timers, inflight,
                 nextDocId, remoteAdds, now, gestures, observed, util>>

\* getDocs or one deleteDoc rejects: clearAllStrokes rethrows and the catch
\* of handleClearCanvas swallows it; the other deletes stay under way.
clearAllStrokesFailedResetsLocal ==
  /\ \/ /\ clearState.pc = "enumerating"
        /\ clearState' = [clearState EXCEPT !.pc = "failed"]
     \/ /\ clearState.pc = "deleting"
        /\ \E id \in clearState.toDelete :
             clearState' = [clearState EXCEPT !.pc = "failed", !.toDelete = @ \ {id}]
  /\ allStrokes' = <<>>
  /\ canvas' = clearCanvas(canvas)
  /\ offscreen' = clearCanvas(offscreen)
  /\ UNCHANGED <<drawingState, settings, mounted, boardId, listeners,
                 animationFrameRef, pendingFrames, devicePixelRatio, containerSize, timers,
                 store, inflight, snapshotPending, nextDocId, remoteAdds, now,
                 gestures, observed, util>>

clearAllStrokesFailed ==
  /\ \/ /\ clearState.pc = "enumerating"
        /\ clearState' = [clearState EXCEPT !.pc = "failed"]
     \/ /\ clearState.pc = "deleting"
        /\ \E id \in clearState.toDelete :
             clearState' = [clearState EXCEPT !.pc = "failed", !.toDelete = @ \ {id}]
  /\ UNCHANGED <<drawingState, settings, mounted, boardId, listeners, allStrokes, animationFrameRef, pendingFrames, canvas,
                 offscreen, devicePixelRatio, containerSize, timers, store,
                 inflight, snapshotPending, nextDocId, remoteAdds, now,
                 gestures, observed, util>>

\* clearAllStrokes has resolved (every delete is answered, or getDocs found
\* no document and there was nothing to wait for): handleClearCanvas goes on
\* after its await, empties allStrokes and clears both canvases; the
\* component renders again and its effects run as after a snapshot.  After
\* the unmount the state update is dropped, canvasRef.current is null and
\* only the offscreen canvas is cleared.
handleClearCanvasDone ==
  /\ \/ clearState.pc = "deleting" /\ clearState.toDelete = {}
     \/ clearState.pc = "enumerating" /\ Collection(store, clearState.board) = {}
  /\ clearState' = [clearState EXCEPT !.pc = "done", !.toDelete = {}]
  /\ IF mounted
     THEN /\ allStrokes' = <<>>
          /\ timers' = Append(timers, allStrokes')
          /\ LET vis1 == clearCanvas(canvas)
                 off1 == clearCanvas(offscreen)
                 r    == renderAllStrokes(allStrokes', vis1, off1, devicePixelRatio)
             IN /\ canvas' = r.canvas
                /\ offscreen' = r.offscreen
     ELSE /\ offscreen' = clearCanvas(offscreen)
          /\ UNCHANGED <<allStrokes, timers, canvas>>
  /\ UNCHANGED <<drawingState, settings, mounted, boardId, listeners, animationFrameRef, pendingFrames, devicePixelRatio,
                 containerSize, store, inflight, snapshotPending, nextDocId,
                 remoteAdds, now, gestures, observed, util>>

\* ------------------------------------------------------------------ toolbar
\* The pen size slider: setSettings({ ...settings, penSize }); the component
\* renders again and the animation effect runs with the new
\* renderCurrentStroke.
setPenSize(size) ==
  /\ mounted
  /\ size # settings.penSize
  /\ settings' = [settings EXCEPT !.penSize = size]
  /\ animationFrameRef' = AnimationEffect(drawingState)
  /\ pendingFrames' = RequestFrame(drawingState,
                       CancelFrame(animationFrameRef, pendingFrames))
  /\ UNCHANGED <<drawingState, mounted, boardId, listeners, allStrokes, canvas,
                 offscreen, devicePixelRatio, containerSize, timers, store,
                 inflight, snapshotPending, nextDocId, remoteAdds, now,
                 clearState, gestures, observed, util>>

\* The colour input: setSettings({ ...settings, color }).
setColor(color) ==
  /\ mounted
  /\ color # settings.color
  /\ settings' = [settings EXCEPT !.color = color]
  /\ animationFrameRef' = AnimationEffect(drawingState)
  /\ pendingFrames' = RequestFrame(drawingState,
                       CancelFrame(animationFrameRef, pendingFrames))
  /\ UNCHANGED <<drawingState, mounted, boardId, listeners, allStrokes, canvas,
                 offscreen, devicePixelRatio, containerSize, timers, store,
                 inflight, snapshotPending, nextDocId, remoteAdds, now,
                 clearState, gestures, observed, util>>

\* ---------------------------------------------------------------- lifecycle
\* The parent renders the component with another boardId: the subscription
\* effect runs again, its cleanup first; the new listener has a first
\* snapshot to deliver.
changeBoard(board) ==
  /\ mounted
  /\ board # boardId
  /\ boardId' = board
  /\ listeners' = Subscribe(Unsubscribe(listeners, boardId), board)
  /\ snapshotPending' = TRUE
  /\ UNCHANGED <<drawingState, settings, mounted, allStrokes, animationFrameRef, pendingFrames,
                 canvas, offscreen, devicePixelRatio, containerSize, timers,
                 store, inflight, nextDocId, remoteAdds, now, clearState,
                 gestures, observed, util>>

\* The component is unmounted: the cleanups of its effects run (the frame is
\* cancelled, the listener removed, the resize listeners removed; a pending
\* resize timeout is not cleared) and canvasRef.current becomes null.
unmount ==
  /\ mounted
  /\ mounted' = FALSE
  /\ animationFrameRef' = AnimationCleanup(animationFrameRef)
  /\ pendingFrames' = CancelFrame(animationFrameRef, pendingFrames)
  /\ listeners' = Unsubscribe(listeners, boardId)
  /\ UNCHANGED <<drawingState, settings, boardId, allStrokes, canvas, offscreen,
                 devicePixelRatio, containerSize, timers, store, inflight,
                 snapshotPending, nextDocId, remoteAdds, now, clearState,
                 gestures, observed, util>>

\* ------------------------------------------------------------ specifications
\* Synchronisation: this client's gestures and board clears, the store, the
\* other client and the snapshots, in a container that keeps its size.
Next ==
  \/ \E p \in SyncPoints :
       gestures + remoteAdds < MaxDocs /\ startDrawing(p) /\ UNCHANGED observed
  \/ \E p \in SyncPoints :
       Len(drawingState.currentStroke) < MaxSyncStroke /\ draw(p) /\ UNCHANGED observed
  \/ endDrawing /\ UNCHANGED observed
  \/ resizeTimer
  \/ \E i \in 1..MaxDocs : addStrokeChunkAccepted(i)
  \/ \E i \in 1..MaxDocs : addStrokeChunkRejected(i)
  \/ \E t \in 0..MaxTime : remoteAdd(t)
  \/ Len(timers) < MaxTimers /\ handleStrokeUpdate
  \/ handleClearCanvas
  \/ clearAllStrokesEnumerate
  \/ \E id \in 1..MaxDocs : clearAllStrokesDelete(id)
  \/ clearAllStrokesFailed
  \/ Len(timers) < MaxTimers /\ handleClearCanvasDone

Spec == Init /\ [][Next]_vars

\* The two canvases: every operation of the component, with the strokes of
\* the other client in the store and a container that changes size.
NextCanvas ==
  \/ \E p \in SyncPoints :
       gestures + remoteAdds < MaxDocs /\ startDrawing(p) /\ UNCHANGED observed
  \/ \E p \in SyncPoints :
       Len(drawingState.currentStroke) < MaxSyncStroke /\ draw(p) /\ UNCHANGED observed
  \/ endDrawing /\ UNCHANGED observed
  \/ animate
  \/ \E size \in Sizes : Len(timers) < MaxTimers /\ handleResize(size)
  \/ resizeTimer
  \/ \E i \in 1..MaxDocs : addStrokeChunkRejected(i)
  \/ remoteAdd(now)
  \/ Len(timers) < MaxTimers /\ handleStrokeUpdate
  \/ handleClearCanvas
  \/ clearAllStrokesEnumerate
  \/ \E id \in 1..MaxDocs : clearAllStrokesDelete(id)
  \/ clearAllStrokesFailed
  \/ Len(timers) < MaxTimers /\ handleClearCanvasDone

SpecCanvas == Init /\ [][NextCanvas]_vars

\* The gesture pipeline on its own, observed: the pointer events, the
\* animation frames and the answers to the submissions.
NextGesture ==
  \/ \E p \in PointSet : pointerDown(p)
  \/ \E p \in PointSet : pointerMove(p)
  \/ pointerUp
  \/ animate
  \/ \E i \in 1..MaxObserved : addStrokeChunkAccepted(i)
  \/ \E i \in 1..MaxObserved : addStrokeChunkRejected(i)

SpecGesture == Init /\ [][NextGesture]_vars

\* A gesture under way while the board changes: the snapshots are delivered
\* while the pointer is down, the container changes size, the frames run.
NextOverlay ==
  \/ \E p \in SyncPoints :
       gestures + remoteAdds < MaxDocs /\ startDrawing(p) /\ UNCHANGED observed
  \/ \E p \in SyncPoints :
       Len(drawingState.currentStroke) < MaxSyncStroke /\ draw(p) /\ UNCHANGED observed
  \/ animate
  \/ \E size \in Sizes : Len(timers) < MaxPending /\ handleResize(size)
  \/ resizeTimer
  \/ remoteAdd(now)
  \/ drawingState.isDrawing /\ Len(timers) < MaxPending /\ handleStrokeUpdate

SpecOverlay == Init /\ [][NextOverlay]_vars

\* The layout boxes the container can have when the component mounts and
\* the device pixel ratios of the display (2, 1 and 1/4).
MountSizes ==
  Sizes \cup { [w |-> 150, h |-> 75], [w |-> 1202, h |-> 600] }

MountRatios == { Ratio(2, 1), Ratio(1, 1), Ratio(1, 4) }

InitResize ==
  /\ \E size \in MountSizes, ratio \in MountRatios : InitComponentAt(size, ratio)
  /\ util = NoUtil

\* The canvases under resizes: a container of any size on any display, a
\* gesture with its frames, the strokes of the other client.
NextResize ==
  \/ \E p \in SyncPoints :
       gestures + remoteAdds < MaxDocs /\ startDrawing(p) /\ UNCHANGED observed
  \/ \E p \in SyncPoints :
       Len(drawingState.currentStroke) < MaxSyncStroke /\ draw(p) /\ UNCHANGED observed
  \/ animate
  \/ \E size \in MountSizes : Len(timers) < MaxTimers /\ handleResize(size)
  \/ resizeTimer
  \/ remoteAdd(now)
  \/ Len(timers) < MaxTimers /\ handleStrokeUpdate

SpecResize == InitResize /\ [][NextResize]_vars

\* The pen sizes and colours the toolbar is set to.
PenSizes == {DefaultPenSize, 10}

PenColors == {"#000000", "#ff0000"}

\* The gesture observed while the toolbar is used.
NextPen ==
  \/ \E p \in SyncPoints : pointerDown(p)
  \/ \E p \in SyncPoints : pointerMove(p)
  \/ pointerUp
  \/ animate
  \/ \E size \in PenSizes : setPenSize(size)
  \/ \E color \in PenColors : setColor(color)

SpecPen == Init /\ [][NextPen]_vars

\* The boards the parent can show.
Boards == {BoardId, "other"}

\* The life of the component: gestures and their frames, the store, the
\* other client, snapshots, a change of board and the unmount.
NextLifecycle ==
  \/ \E p \in SyncPoints :
       gestures + remoteAdds < MaxDocs /\ startDrawing(p) /\ UNCHANGED observed
  \/ \E p \in SyncPoints :
       Len(drawingState.currentStroke) < MaxSyncStroke /\ draw(p) /\ UNCHANGED observed
  \/ endDrawing /\ UNCHANGED observed
  \/ animate
  \/ resizeTimer
  \/ \E i \in 1..MaxDocs : addStrokeChunkAccepted(i)
  \/ remoteAdd(now)
  \/ Len(timers) < MaxTimers /\ handleStrokeUpdate
  \/ \E board \in Boards : changeBoard(board)
  \/ unmount

SpecLifecycle == Init /\ [][NextLifecycle]_vars

\* The drawing utilities as functions: a call is drawn at the start and
\* carried out in one step.
RECURSIVE SeqsUpTo(_, _)
SeqsUpTo(S, n) ==
  IF n = 0 THEN {<<>>}
  ELSE LET shorter == SeqsUpTo(S, n - 1)
       IN shorter \cup {Append(q, e) : q \in {r \in shorter : Len(r) = n - 1}, e \in S}

OptPoints == {Pt(x, y) : x \in 0..MaxCoord, y \in 0..1}

SmoothPointSet == {Pt(0, 0), Pt(1, 2), Pt(2, 1)}

DistPoints == {Pt(x, y) : x \in 0..MaxDistCoord, y \in 0..MaxDistCoord}

\* Pointer events and the canvases they hit.
ClientCoords == 0..MaxClient

Touches == {[clientX |-> 1, clientY |-> 2], [clientX |-> 2, clientY |-> 0]}

PointerEvents ==
  {MouseEvent(x, y) : x \in ClientCoords, y \in ClientCoords}
  \cup {TouchEvent(t, c) : t \in SeqsUpTo(Touches, 2), c \in SeqsUpTo(Touches, 2)}

PointerTargets ==
  { [width |-> 300, height |-> 150,
     rect |-> [left |-> 0, top |-> 0, width |-> 300, height |-> 150]],
    [width |-> 240, height |-> 180,
     rect |-> [left |-> 1, top |-> 2, width |-> 120, height |-> 90]],
    [width |-> 240, height |-> 180,
     rect |-> [left |-> 3, top |-> 0, width |-> 100, height |-> 70]] }

PointerCalls ==
  {[fn |-> "getPointerPosition", points |-> <<>>,
    param |-> [event |-> e, target |-> c], done |-> FALSE, result |-> <<>>] :
     e \in PointerEvents, c \in PointerTargets}

DrawCalls ==
  {[fn |-> "drawSmoothLine", points |-> q,
    param |-> [color |-> c, size |-> DefaultPenSize], done |-> FALSE,
    result |-> <<>>] :
     q \in SeqsUpTo(SmoothPointSet, MaxSmoothLen), c \in {"#000000", "#ff0000"}}

\* Container boxes and device pixel ratios (0: the property is missing) for
\* the calls of resizeCanvas.
ResizeSides == {40, 100, 103}

ResizeRatios ==
  { Ratio(0, 1), Ratio(1, 4), Ratio(1, 2), Ratio(1, 1), Ratio(5, 4),
    Ratio(3, 2), Ratio(2, 1) }

ResizeCalls ==
  {[fn |-> "resizeCanvas", points |-> <<>>,
    param |-> [container |-> [w |-> w, h |-> h], devicePixelRatio |-> r],
    done |-> FALSE, result |-> <<>>] :
     w \in ResizeSides, h \in ResizeSides, r \in ResizeRatios}

\* Something drawn on a canvas.
Scribble(target) ==
  [target EXCEPT !.content =
     Append(@, [points |-> RemotePoints, color |-> "#000000",
                size |-> DefaultPenSize, k |-> target.scale,
                id |-> 0, timestamp |-> 0])]

\* A canvas of the given backing-store size; one with pixels has something
\* drawn on it.
CanvasOf(width, height) ==
  IF width = 0 \/ height = 0
  THEN [NewCanvas EXCEPT !.width = width, !.height = height]
  ELSE Scribble([NewCanvas EXCEPT !.width = width, !.height = height])

RenderCanvases ==
  {CanvasOf(w, h) : w \in {0, DefaultCanvasWidth}, h \in {0, DefaultCanvasHeight}}

\* renderAllStrokes with a list of one stroke, renderCurrentStroke in a
\* gesture with two buffered points, on every pair of canvases.
RenderCalls ==
  {[fn |-> f, points |-> RemotePoints,
    param |-> [visible |-> v, offscr |-> o],
    done |-> FALSE, result |-> <<>>] :
     f \in {"renderAllStrokes", "renderCurrentStroke"},
     v \in RenderCanvases, o \in RenderCanvases}

UtilCalls ==
  {[fn |-> "optimizePoints", points |-> q, param |-> m, done |-> FALSE,
    result |-> <<>>] : q \in SeqsUpTo(OptPoints, MaxOptLen), m \in 0..MaxThreshold}
  \cup
  {[fn |-> "smoothPoints", points |-> q, param |-> w, done |-> FALSE,
    result |-> <<>>] : q \in SeqsUpTo(SmoothPointSet, MaxSmoothLen), w \in 0..MaxWindow}
  \cup
  {[fn |-> "getDistance", points |-> <<p1, p2>>, param |-> 0, done |-> FALSE,
    result |-> <<>>] : p1 \in DistPoints, p2 \in DistPoints}

\* The samples of one gesture, in the order of their pointer events, under
\* each decimation threshold.
SampleCalls ==
  {[fn |-> "drawSamples", points |-> q, param |-> m, done |-> FALSE,
    result |-> <<>>] :
     q \in {r \in SeqsUpTo(OptPoints, MaxSamples) : Len(r) >= 1},
     m \in 0..MaxThreshold}

componentVars == <<drawingState, settings, mounted, boardId, listeners, allStrokes, animationFrameRef, pendingFrames,
                   canvas, offscreen, devicePixelRatio, containerSize, timers,
                   store, inflight, snapshotPending, nextDocId, remoteAdds,
                   now, clearState, gestures, observed>>

callOptimizePoints ==
  /\ util.fn = "optimizePoints" /\ ~util.done
  /\ util' = [util EXCEPT !.done = TRUE,
                          !.result = optimizePoints(util.points, util.param)]
  /\ UNCHANGED componentVars

\* The buffer after the first n samples of a gesture: startDrawing puts the
\* first sample in it, and draw appends each further one and runs
\* optimizePoints over the whole buffer.
RECURSIVE BufferAfterNoRerun(_, _, _)
BufferAfterNoRerun(samples, n, minDistance) ==
  IF n = 1 THEN <<samples[1]>>
  ELSE Append(BufferAfterNoRerun(samples, n - 1, minDistance), samples[n])

RECURSIVE BufferAfter(_, _, _)
BufferAfter(samples, n, minDistance) ==
  IF n = 1 THEN <<samples[1]>>
  ELSE optimizePoints(Append(BufferAfter(samples, n - 1, minDistance),
                             samples[n]), minDistance)

callDrawSamples ==
  /\ util.fn = "drawSamples" /\ ~util.done
  /\ util' = [util EXCEPT !.done = TRUE,
                          !.result = BufferAfter(util.points, Len(util.points),
                                                 util.param)]
  /\ UNCHANGED componentVars

callSmoothPoints ==
  /\ util.fn = "smoothPoints" /\ ~util.done
  /\ util' = [util EXCEPT !.done = TRUE,
                          !.result = smoothPoints(util.points, util.param)]
  /\ UNCHANGED componentVars

callGetDistance ==
  /\ util.fn = "getDistance" /\ ~util.done
  /\ util' = [util EXCEPT !.done = TRUE,
                          !.result = <<getDistance(util.points[1], util.points[2])>>]
  /\ UNCHANGED componentVars

callGetPointerPosition ==
  /\ util.fn = "getPointerPosition" /\ ~util.done
  /\ util' = [util EXCEPT !.done = TRUE,
                          !.result = getPointerPosition(util.param.event,
                                                        util.param.target)]
  /\ UNCHANGED componentVars

callDrawSmoothLine ==
  /\ util.fn = "drawSmoothLine" /\ ~util.done
  /\ util' = [util EXCEPT !.done = TRUE,
                          !.result = drawSmoothLineCommands(
                                       util.points, util.param.color,
                                       util.param.size)]
  /\ UNCHANGED componentVars

\* resizeCanvas twice in a row on a new canvas, something drawn in between:
\* for each call, whether it reached its assignments and the canvas after it.
callResizeCanvasTwice ==
  /\ util.fn = "resizeCanvas" /\ ~util.done
  /\ LET container == util.param.container
         ratio     == util.param.devicePixelRatio
         first     == Scribble(resizeCanvas(NewCanvas, container, ratio))
         second    == resizeCanvas(first, container, ratio)
     IN util' = [util EXCEPT
                   !.done = TRUE,
                   !.result =
                     << [wrote |-> resizeCanvasWrites(NewCanvas, container, ratio),
                         canvas |-> first],
                        [wrote |-> resizeCanvasWrites(first, container, ratio),
                         canvas |-> second] >>]
  /\ UNCHANGED componentVars

callRenderAllStrokes ==
  /\ util.fn = "renderAllStrokes" /\ ~util.done
  /\ util' = [util EXCEPT
                !.done = TRUE,
                !.result =
                  << renderAllStrokes(
                       << [id |-> 1, timestamp |-> 1, points |-> util.points,
                           color |-> "#000000", size |-> DefaultPenSize] >>,
                       util.param.visible, util.param.offscr,
                       devicePixelRatio) >>]
  /\ UNCHANGED componentVars

callRenderCurrentStroke ==
  /\ util.fn = "renderCurrentStroke" /\ ~util.done
  /\ util' = [util EXCEPT
                !.done = TRUE,
                !.result =
                  << renderCurrentStroke(
                       [IdleDrawingState EXCEPT !.isDrawing = TRUE,
                                                !.currentStroke = util.points,
                                                !.currentStrokeId = 1],
                       settings, util.param.visible, util.param.offscr,
                       devicePixelRatio) >>]
  /\ UNCHANGED componentVars

InitUtil ==
  InitComponent
  /\ util \in UtilCalls \cup PointerCalls \cup DrawCalls \cup ResizeCalls
               \cup RenderCalls \cup SampleCalls

NextUtil ==
  \/ callOptimizePoints
  \/ callSmoothPoints
  \/ callGetDistance
  \/ callGetPointerPosition
  \/ callDrawSmoothLine
  \/ callResizeCanvasTwice
  \/ callRenderAllStrokes
  \/ callRenderCurrentStroke
  \/ callDrawSamples

SpecUtil == InitUtil /\ [][NextUtil]_vars

\* ------------------------------------------------------------------ claims
LocalDocs == {d \in store : d.data.uid = LocalUid}

\* C1: in every recompose pass the persistent layer gets the stroke of the
\* smaller timestamp before the stroke of the larger one, whatever the order
\* in which the two chunks were created in the store: of any two marks on the
\* offscreen canvas with different timestamps the earlier-stamped is the
\* earlier-drawn.
C1_RecomposeInTimestampOrder ==
  \A i, j \in DOMAIN offscreen.content :
    offscreen.content[i].timestamp < offscreen.content[j].timestamp => i < j

\* Two strokes on the persistent layer, the one drawn first stamped earlier
\* but created in the store later.
C1_Witness ==
  \E i, j \in DOMAIN offscreen.content :
    /\ i < j
    /\ offscreen.content[i].timestamp < offscreen.content[j].timestamp
    /\ offscreen.content[i].id > offscreen.content[j].id

\* C2: every chunk passed to addStrokeChunk, and so every chunk this client
\* has put in the store, has strokeComplete = true and at least one point.
C2_SubmittedCompleteAndNonEmpty ==
  /\ \A i \in DOMAIN inflight :
       inflight[i].strokeComplete /\ Len(inflight[i].points) >= 1
  /\ \A d \in LocalDocs :
       d.data.strokeComplete /\ Len(d.data.points) >= 1

\* A chunk of a single point is on its way to the store while a board clear
\* is under way.
C2_Witness ==
  /\ inflight # <<>>
  /\ Len(inflight[1].points) = 1
  /\ clearState.pc = "deleting"

\* C3: a gesture is persisted at most once, and exactly once as soon as one
\* terminating event has followed its pointer-down, however many terminating
\* events follow and whether or not the submission was rejected.
C3_OneCallPerGesture ==
  /\ Len(observed.submitted) <= 1
  /\ (gestures >= 1 /\ observed.ends >= 1) => Len(observed.submitted) = 1
  /\ gestures = 0 => Len(observed.submitted) = 0

\* Two terminating events have followed the pointer-down, the one call was
\* rejected by the store, and there was no other call.
C3_Witness ==
  /\ gestures >= 1
  /\ observed.ends >= 2
  /\ Len(observed.submitted) = 1
  /\ inflight = <<>>
  /\ store = {}

\* C4 as stated: nothing but renderAllStrokes changes the offscreen canvas.
\* The resize callback's own statements before its renderAllStrokes call
\* leave the offscreen canvas as it was, so do the board-clear handler's own
\* statements, and the offscreen canvas changes in no step but one that runs
\* renderAllStrokes.
C4_OnlyRenderAllStrokes ==
  [][/\ resizeTimer =>
          syncOffscreenCanvasSize(
            resizeCanvas(canvas, containerSize, devicePixelRatio),
            offscreen, devicePixelRatio) = offscreen
     /\ handleClearCanvasDone => clearCanvas(offscreen) = offscreen
     /\ offscreen' # offscreen =>
          (handleStrokeUpdate \/ resizeTimer \/ handleClearCanvasDone)]_vars

\* C4 as amended: the offscreen canvas changes only in the steps that end
\* with a recompose: the snapshot callback, the resize timer (whose own
\* syncOffscreenCanvasSize call resizes and blanks it first) and the
\* completed board clear (whose handler clears it first).  The pointer
\* handlers and the live-overlay tick never change its content or its size.
C4_OffscreenChangedOnlyBy ==
  [][offscreen' # offscreen =>
       (handleStrokeUpdate \/ resizeTimer \/ handleClearCanvasDone)]_vars

\* An overlay tick has drawn the in-progress stroke on the visible canvas
\* over a persistent layer that was resized and holds a stroke.
C4_Witness ==
  /\ \E m \in DOMAIN canvas.content : canvas.content[m].id = 0
  /\ offscreen.content # <<>>
  /\ offscreen.width # DefaultCanvasWidth
  /\ \A m \in DOMAIN offscreen.content : offscreen.content[m].id # 0

\* C5: once a board clear has completed and the one stroke submitted after
\* the Clear click is in the store and nothing is under way any more, the
\* local list holds exactly that chunk.
C5_ClearThenStroke ==
  ( /\ clearState.pc = "done"
    /\ inflight = <<>>
    /\ ~snapshotPending
    /\ ~drawingState.isDrawing
    /\ Cardinality(store) = 1
    /\ LocalDocs = store )
  => allStrokes = subscribeToStrokes(store)

\* C6: the gesture sampled at (10,10), (10,10.5), (20,20) and ended submits
\* one chunk, complete, with the points (10,10), (20,20).
ScenarioSamples ==
  << Pt(10 * Unit, 10 * Unit),
     Pt(10 * Unit, 10 * Unit + Unit \div 2),
     Pt(20 * Unit, 20 * Unit) >>

C6_ScenarioOne ==
  (observed.samples = ScenarioSamples /\ observed.ends >= 1)
  => /\ Len(observed.submitted) = 1
     /\ observed.submitted[1].points =
          << Pt(10 * Unit, 10 * Unit), Pt(20 * Unit, 20 * Unit) >>
     /\ observed.submitted[1].strokeComplete

C6_Witness ==
  /\ observed.samples = ScenarioSamples
  /\ observed.ends >= 1
  /\ Len(observed.submitted) = 1
  /\ Len(observed.submitted[1].points) = 2

\* C7: for a non-empty input optimizePoints returns a list no longer than
\* the input, that starts with the first input point and ends with the last.
C7_OptimizeKeepsEnds ==
  (util.done /\ util.fn = "optimizePoints" /\ Len(util.points) >= 1)
  => /\ Len(util.result) <= Len(util.points)
     /\ Len(util.result) >= 1
     /\ util.result[1] = util.points[1]
     /\ util.result[Len(util.result)] = util.points[Len(util.points)]

\* Points were dropped and the last point, under the threshold from the
\* point retained before it, was kept all the same.
C7_Witness ==
  /\ util.done /\ util.fn = "optimizePoints"
  /\ Len(util.result) >= 2
  /\ Len(util.result) < Len(util.points)
  /\ ~DistGE(getDistance(util.result[Len(util.result) - 1],
                         util.result[Len(util.result)]), util.param)

\* C8: two consecutive points of the output of optimizePoints are at least
\* the threshold apart, the last pair possibly excepted, and an input whose
\* consecutive points are all at least the threshold apart comes back as is.
C8_OptimizeSpacing ==
  (util.done /\ util.fn = "optimizePoints")
  => /\ \A k \in 1..(Len(util.result) - 2) :
          DistGE(getDistance(util.result[k], util.result[k + 1]), util.param)
     /\ (\A k \in 1..(Len(util.points) - 1) :
           DistGE(getDistance(util.points[k], util.points[k + 1]), util.param))
        => util.result = util.points

\* Three points or more retained from a longer input, at a threshold above 0.
C8_Witness ==
  /\ util.done /\ util.fn = "optimizePoints"
  /\ util.param >= 1
  /\ Len(util.result) >= 3
  /\ Len(util.result) < Len(util.points)

\* The sum of f over the set of positions S.
RECURSIVE SumOver(_, _, _)
SumOver(S, points, coord) ==
  IF S = {} THEN 0
  ELSE LET j == CHOOSE k \in S : TRUE
       IN (IF coord = "x" THEN points[j].x ELSE points[j].y)
          + SumOver(S \ {j}, points, coord)

\* The quotient q is the number n / d.
IsQuotient(q, n, d) == q.num * d = n * q.den /\ q.den # 0

\* C9: smoothPoints returns a list of the input's length; the first
\* windowSize and the last windowSize points are the input's, an input of
\* at most windowSize points comes back as is, and every other point is the
\* average of the 2 * windowSize + 1 input points around its position.
C9_SmoothWindow ==
  (util.done /\ util.fn = "smoothPoints")
  => LET n == Len(util.points)
         w == util.param
     IN /\ Len(util.result) = n
        /\ n <= w => util.result = util.points
        /\ \A i \in 1..n :
             IF i <= w \/ i > n - w
             THEN util.result[i] = util.points[i]
             ELSE /\ IsQuotient(util.result[i].x,
                                SumOver((i - w)..(i + w), util.points, "x"),
                                2 * w + 1)
                  /\ IsQuotient(util.result[i].y,
                                SumOver((i - w)..(i + w), util.points, "y"),
                                2 * w + 1)

\* A point inside the list was replaced by an average that is not its own
\* value, with a window of at least 1.
C9_Witness ==
  /\ util.done /\ util.fn = "smoothPoints"
  /\ util.param >= 1
  /\ \E i \in (util.param + 1)..(Len(util.points) - util.param) :
       ~IsQuotient(util.result[i].x, util.points[i].x, 1)

\* C10: getDistance gives the same distance for both orders of its
\* arguments, 0 for a point and itself, and exactly 5 for (0,0) and (3,4).
C10_DistanceSymmetric ==
  (util.done /\ util.fn = "getDistance")
  => /\ util.result[1] = getDistance(util.points[2], util.points[1])
     /\ util.points[1] = util.points[2] => util.result[1] = Exactly(0)
     /\ (util.points[1] = Pt(0, 0) /\ util.points[2] = Pt(3, 4))
        => util.result[1] = Exactly(5)

C10_Witness ==
  /\ util.done /\ util.fn = "getDistance"
  /\ util.points = << Pt(0, 0), Pt(3, 4) >>
  /\ util.result = << Exactly(5) >>

\* C11: getPointerPosition returns x = (clientX - rect.left) *
\* (canvas.width / rect.width) and y = (clientY - rect.top) * (canvas.height
\* / rect.height), where clientX and clientY are the event's own for a mouse
\* event and those of the first active touch, or without one of the first
\* changed touch, for a touch event.
C11_PointerTransform ==
  (util.done /\ util.fn = "getPointerPosition")
  => LET event  == util.param.event
         target == util.param.target
         from   == IF event.type = "mouse" THEN <<event>>
                   ELSE IF Len(event.touches) >= 1 THEN <<event.touches[1]>>
                   ELSE IF Len(event.changedTouches) >= 1
                        THEN <<event.changedTouches[1]>>
                   ELSE <<>>
     IN from # <<>> =>
          /\ Len(util.result) = 1
          /\ DOMAIN util.result[1] = {"x", "y"}
          /\ IsQuotient(util.result[1].x,
                        (from[1].clientX - target.rect.left) * target.width,
                        target.rect.width)
          /\ IsQuotient(util.result[1].y,
                        (from[1].clientY - target.rect.top) * target.height,
                        target.rect.height)

\* A touch event whose first active touch is not its first changed touch,
\* on a canvas that is scaled and offset.
C11_Witness ==
  /\ util.done /\ util.fn = "getPointerPosition"
  /\ util.param.event.type = "touch"
  /\ Len(util.param.event.touches) >= 1
  /\ Len(util.param.event.changedTouches) >= 1
  /\ util.param.event.touches[1] # util.param.event.changedTouches[1]
  /\ util.param.target.width # util.param.target.rect.width
  /\ util.param.target.rect.left # 0
  /\ util.result[1].x.num # 0

\* The calls that build and paint the path, out of a list of calls.
IsPathCommand(c) == c.op \in {"moveTo", "lineTo", "quadraticCurveTo", "stroke"}

\* The call c has the name op and the coordinates coords (integers over 2).
IsCall(c, op, halves) ==
  /\ c.op = op
  /\ Len(c.args) = Len(halves)
  /\ \A a \in 1..Len(halves) : IsQuotient(c.args[a], halves[a], 2)

\* C12: drawSmoothLine makes no call at all on fewer than 2 points; on 2
\* points one moveTo, one lineTo and one stroke; on n > 2 points one moveTo
\* to point[0], for each i in 1..n-2 one quadraticCurveTo with control
\* point[i] and the midpoint of point[i] and point[i+1] as its end, then a
\* last quadraticCurveTo with control point[n-2] and end point[n-1], then
\* one stroke.
C12_PathCommands ==
  (util.done /\ util.fn = "drawSmoothLine")
  => LET p    == util.points
         n    == Len(p)
         path == SelectSeq(util.result, IsPathCommand)
     IN /\ n < 2 => util.result = <<>>
        /\ n = 2 =>
             /\ Len(path) = 3
             /\ IsCall(path[1], "moveTo", << 2 * p[1].x, 2 * p[1].y >>)
             /\ IsCall(path[2], "lineTo", << 2 * p[2].x, 2 * p[2].y >>)
             /\ IsCall(path[3], "stroke", <<>>)
        /\ n > 2 =>
             /\ Len(path) = n + 1
             /\ IsCall(path[1], "moveTo", << 2 * p[1].x, 2 * p[1].y >>)
             /\ \A i \in 1..(n - 2) :
                  IsCall(path[i + 1], "quadraticCurveTo",
                         << 2 * p[i + 1].x, 2 * p[i + 1].y,
                            p[i + 1].x + p[i + 2].x, p[i + 1].y + p[i + 2].y >>)
             /\ IsCall(path[n], "quadraticCurveTo",
                       << 2 * p[n - 1].x, 2 * p[n - 1].y, 2 * p[n].x, 2 * p[n].y >>)
             /\ IsCall(path[n + 1], "stroke", <<>>)

\* A path through four points or more, two of its curves ending between
\* grid points.
C12_Witness ==
  /\ util.done /\ util.fn = "drawSmoothLine"
  /\ Len(util.points) >= 4
  /\ Len(SelectSeq(util.result, IsPathCommand)) = Len(util.points) + 1
  /\ util.points[2] # util.points[3]

\* C13: of two calls of resizeCanvas in a row, with the same container box
\* and the same device pixel ratio, the second one returns without writing:
\* it does not reach the assignments of canvas.width and canvas.height and
\* the call of ctx.scale, and what was on the canvas is still there.
C13_SecondResizeWritesNothing ==
  (util.done /\ util.fn = "resizeCanvas")
  => /\ ~util.result[2].wrote
     /\ util.result[2].canvas = util.result[1].canvas

\* C14: an animation frame is requested only while a gesture is active on
\* the mounted component: the step that ends the gesture and the unmount
\* leave no frame requested, and no overlay tick runs outside an active
\* gesture.
C14_FrameOnlyWhileDrawing ==
  /\ [](animationFrameRef = "frame" => mounted /\ drawingState.isDrawing)
  /\ [][animate => mounted /\ drawingState.isDrawing]_vars

\* The component was unmounted after a gesture whose overlay was drawn by a
\* tick had ended.
C14_Witness ==
  /\ ~mounted
  /\ gestures >= 1
  /\ ~drawingState.isDrawing
  /\ animationFrameRef = "null"
  /\ \E m \in DOMAIN canvas.content : canvas.content[m].id = 0

\* C15: while the component is mounted it has exactly one stroke listener,
\* on its current boardId; a change of boardId removes the listener of the
\* board left behind, the unmount removes the last one, and after the unmount
\* no step changes the local stroke list or either canvas.
C15_OneSubscription ==
  /\ [](mounted => listeners = {boardId})
  /\ [](~mounted => listeners = {})
  /\ [][boardId' # boardId => boardId \notin listeners']_vars
  /\ [][~mounted => /\ allStrokes' = allStrokes
                    /\ canvas' = canvas
                    /\ offscreen' = offscreen]_vars

\* After a change of board and the unmount, the store holds a stroke of the
\* current board that the local list never received, and a snapshot of it is
\* undelivered.
C15_Witness ==
  /\ ~mounted
  /\ boardId # BoardId
  /\ snapshotPending
  /\ Collection(store, boardId) # {}
  /\ allStrokes # subscribeToStrokes(Collection(store, boardId))

\* C16: a failed submission never blocks local drawing.  The rejection of an
\* addStrokeChunk call changes nothing of the component; whenever no gesture
\* is active the gesture state is the idle one, whatever became of the
\* submissions; every pointer-down starts a gesture with the pointer's
\* position as its only point; and every submission carries the buffer of
\* the gesture it ends and leaves the state idle.
C16_FailureNeverBlocks ==
  /\ [](~drawingState.isDrawing => drawingState = IdleDrawingState)
  /\ [][(\E i \in 1..MaxDocs : addStrokeChunkRejected(i)) =>
          UNCHANGED <<drawingState, animationFrameRef, allStrokes, canvas,
                      offscreen, gestures>>]_vars
  /\ [][gestures' = gestures + 1 =>
          /\ drawingState'.isDrawing
          /\ Len(drawingState'.currentStroke) = 1
          /\ drawingState'.currentStrokeId = gestures']_vars
  /\ [][Len(inflight') > Len(inflight) =>
          /\ drawingState.currentStroke # <<>>
          /\ inflight'[Len(inflight')].points = drawingState.currentStroke
          /\ drawingState' = IdleDrawingState]_vars

\* The first gesture's submission was rejected (nothing was ever persisted)
\* and the second gesture has ended and is submitted.
C16_Witness ==
  /\ nextDocId = 1
  /\ gestures = 2
  /\ ~drawingState.isDrawing
  /\ Len(inflight) = 1
  /\ inflight[1].timestamp = 2
  /\ Len(inflight[1].points) = 2

\* The visible canvas c shows the overlay picture of a finalized stroke of
\* this client none of whose submissions is under way or persisted: every
\* one was rejected.
FailedStrokeShown(c, m) ==
  /\ gestures >= 1
  /\ ~drawingState.isDrawing
  /\ inflight = <<>>
  /\ LocalDocs = {}
  /\ m \in DOMAIN c.content
  /\ c.content[m].id = 0

\* C17: a finalized stroke whose submission failed and which the visible
\* canvas shows is still shown by the visible canvas after every later step
\* (overlay ticks, recomposes, resizes).
C17_FailedStrokeStaysVisible ==
  [][\A m \in DOMAIN canvas.content :
       FailedStrokeShown(canvas, m) =>
         \E n \in DOMAIN canvas'.content :
           /\ canvas'.content[n].id = 0
           /\ canvas'.content[n].points = canvas.content[m].points]_vars

\* The mark at position m of canvas c renders the same stroke as mark.
SameStroke(c, m, mark) ==
  /\ c.content[m].id = mark.id
  /\ c.content[m].points = mark.points
  /\ c.content[m].color = mark.color
  /\ c.content[m].size = mark.size

\* C18: an overlay tick of a gesture with at least 2 buffered points leaves
\* the persistent layer as it was and leaves on the visible canvas exactly
\* the strokes of the persistent layer, in its order, with the in-progress
\* stroke on top; and the stroke set the snapshot callback delivered during
\* the gesture is on the visible canvas after the tick.
C18_TickShowsDeliveredStrokes ==
  [][(animate /\ drawingState.isDrawing /\ Len(drawingState.currentStroke) >= 2) =>
       /\ offscreen' = offscreen
       /\ Len(canvas'.content) = Len(offscreen.content) + 1
       /\ \A m \in DOMAIN offscreen.content :
            SameStroke(canvas', m, offscreen.content[m])
       /\ SameStroke(canvas', Len(canvas'.content),
                     LiveStroke(drawingState, settings))
       /\ \A i \in DOMAIN allStrokes :
            Len(allStrokes[i].points) >= 2 =>
              \E m \in DOMAIN canvas'.content :
                canvas'.content[m].id = allStrokes[i].id]_vars

\* A step that blits the persistent layer onto the visible canvas once the
\* resizes have been carried out: the recompose of a resize callback, or a
\* recompose or an overlay tick while no resize callback is pending.
BlitAfterResizes ==
  \/ mounted /\ resizeTimer
  \/ /\ timers = <<>>
     /\ \/ handleStrokeUpdate
        \/ handleClearCanvasDone
        \/ /\ animate
           /\ drawingState.isDrawing
           /\ Len(drawingState.currentStroke) >= 2

\* C19: at every blit of the persistent layer after resizes the offscreen
\* canvas has the width and height of the visible canvas, and the contexts
\* of both carry the same scale, the device pixel ratio applied once.
C19_BlitSameSizeAndScale ==
  [][BlitAfterResizes =>
       /\ offscreen'.width = canvas'.width
       /\ offscreen'.height = canvas'.height
       /\ offscreen'.scale = canvas'.scale
       /\ canvas'.scale = RatioOr1(devicePixelRatio)]_vars

\* C20: the colour and size of every chunk submitted for a gesture, and the
\* style of the in-progress stroke every overlay tick of the gesture draws,
\* are the pen settings in effect at the pointer-down of the gesture.
C20_StyleFixedAtPointerDown ==
  /\ [](\A i \in DOMAIN observed.submitted :
         /\ observed.submitted[i].color = observed.pen.color
         /\ observed.submitted[i].size = observed.pen.penSize)
  /\ [][(animate /\ drawingState.isDrawing /\ Len(drawingState.currentStroke) >= 2) =>
          /\ canvas'.content[Len(canvas'.content)].color = observed.pen.color
          /\ canvas'.content[Len(canvas'.content)].size = observed.pen.penSize]_vars

\* C21: the id generateStrokeId produced at pointer-down is the id of the
\* chunk endDrawing submits for the gesture, and the chunks under submission
\* carry pairwise different ids.
C21_StrokeIdKept ==
  /\ [][Len(inflight') > Len(inflight) =>
          /\ inflight'[Len(inflight')].id = drawingState.currentStrokeId
          /\ inflight'[Len(inflight')].id # EmptyId]_vars
  /\ [](\A i, j \in DOMAIN inflight : inflight[i].id = inflight[j].id => i = j)

\* A canvas without pixels.
ZeroSized(c) == c.width = 0 \/ c.height = 0

IsPrefix(s, t) == Len(s) <= Len(t) /\ SubSeq(t, 1, Len(s)) = s

\* C23: the buffer of the gesture before a pointer-move is a prefix of the
\* buffer after it.
C23_BufferAppendOnly ==
  [][(\E p \in PointSet : draw(p)) =>
       IsPrefix(drawingState.currentStroke, drawingState'.currentStroke)]_vars

\* C24: the step in which clearAllStrokes rejects (at the enumeration or at
\* one delete) leaves the local stroke list and both canvases as they were;
\* the step in which the handler goes on after a clearAllStrokes that
\* resolved leaves the list empty and both canvases blank.
C24_ClearFailureLeavesLocalState ==
  /\ [][clearAllStrokesFailed =>
          /\ allStrokes' = allStrokes
          /\ canvas' = canvas
          /\ offscreen' = offscreen]_vars
  /\ [][(mounted /\ handleClearCanvasDone) =>
          /\ allStrokes' = <<>>
          /\ canvas'.content = <<>>
          /\ offscreen'.content = <<>>]_vars

\* A board clear failed while the list and both canvases held a stroke, and
\* they still hold it.
C24_Witness ==
  /\ clearState.pc = "failed"
  /\ allStrokes # <<>>
  /\ canvas.content # <<>>
  /\ offscreen.content # <<>>

\* s is t with some elements left out, the others in their order.
RECURSIVE IsSubsequence(_, _)
IsSubsequence(s, t) ==
  IF s = <<>> THEN TRUE
  ELSE IF t = <<>> THEN FALSE
  ELSE IF Head(s) = Head(t) THEN IsSubsequence(Tail(s), Tail(t))
  ELSE IsSubsequence(s, Tail(t))

\* C25: the buffer a gesture builds sample by sample, decimating the whole
\* buffer after each append, is the decimation of the whole sample sequence
\* in one pass; it is a subsequence of the samples that starts with the first
\* sample and ends with the latest one.
C25_IncrementalIsBatch ==
  (util.done /\ util.fn = "drawSamples")
  => /\ util.result = optimizePoints(util.points, util.param)
     /\ IsSubsequence(util.result, util.points)
     /\ util.result[1] = util.points[1]
     /\ util.result[Len(util.result)] = util.points[Len(util.points)]

\* A gesture of three samples of which the decimation dropped the one in
\* the middle, which the buffer held after the second sample.
C25_Witness ==
  /\ util.done /\ util.fn = "drawSamples"
  /\ Len(util.points) = 3
  /\ Len(util.result) = 2
  /\ util.points[2] # util.points[3]
  /\ BufferAfter(util.points, 2, util.param) = SubSeq(util.points, 1, 2)

\* C26: in every state the gesture flag agrees with the in-progress buffer
\* and identifier: no gesture, then the buffer is empty and the identifier
\* null; a gesture, then the buffer has a point and the identifier is set;
\* and the chunk index is 0.
C26_GestureStateConsistent ==
  /\ ~drawingState.isDrawing =>
       /\ drawingState.currentStroke = <<>>
       /\ drawingState.currentStrokeId = IdleDrawingState.currentStrokeId
  /\ drawingState.isDrawing =>
       /\ Len(drawingState.currentStroke) >= 1
       /\ drawingState.currentStrokeId # IdleDrawingState.currentStrokeId
  /\ drawingState.chunkIndex = 0

\* A second gesture under way, with two points buffered, after a snapshot
\* delivered the stroke of the first.
C26_Witness ==
  /\ drawingState.isDrawing
  /\ Len(drawingState.currentStroke) >= 2
  /\ gestures >= 2
  /\ allStrokes # <<>>

\* C27: at no time is more than one animation frame of the overlay loop
\* requested and still to run, however many pointer-moves re-run the loop
\* effect between two frames; the frame still to run is the one the ref
\* names.
C27_OneFramePending ==
  /\ pendingFrames <= 1
  /\ pendingFrames = 1 => animationFrameRef = "frame"

\* Two pointer-moves re-ran the effect and no frame ran since the gesture
\* began: the overlay is not drawn yet and one frame is requested.
C27_Witness ==
  /\ drawingState.isDrawing
  /\ Len(drawingState.currentStroke) = 3
  /\ canvas.content = <<>>
  /\ pendingFrames = 1

\* The backing-store pixel of the visible canvas at which a mark shows its
\* i-th point: the coordinates go through the transform they were drawn
\* with.
PixelOf(mark, i) ==
  [x |-> Ratio(mark.points[i].x * mark.k.num, mark.k.den),
   y |-> Ratio(mark.points[i].y * mark.k.num, mark.k.den)]

\* The backing-store pixel under the pointer at a sample: getPointerPosition
\* returns the offset in the canvas times canvas.width / rect.width.
PixelUnderPointer(p) == [x |-> Ratio(p.x, 1), y |-> Ratio(p.y, 1)]

\* The marks of the visible canvas that show points sampled by this client:
\* the live overlay and the delivered strokes of its own gestures.
OwnMarks ==
  {m \in DOMAIN canvas.content :
     \/ canvas.content[m].id = 0
     \/ \E d \in LocalDocs : d.docId = canvas.content[m].id}

\* C28: every point this client sampled is shown on the visible canvas at
\* the pixel that was under the pointer, by the live overlay and by the
\* recompose alike.
C28_SamePixelLiveAndPersisted ==
  \A m \in OwnMarks : \A i \in DOMAIN canvas.content[m].points :
     PixelOf(canvas.content[m], i) = PixelUnderPointer(canvas.content[m].points[i])

\* C29: a pointer-up that follows the pointer-down directly submits a chunk
\* of exactly one point; a snapshot delivers every stored chunk of the board,
\* the one-point chunks with their point; and no recompose draws anything
\* for a one-point chunk: every mark on either canvas has two points or
\* more.
C29_SinglePointStrokeInvisible ==
  /\ [][(Len(inflight') > Len(inflight) /\ Len(drawingState.currentStroke) = 1) =>
          Len(inflight'[Len(inflight')].points) = 1]_vars
  /\ [][(snapshotPending /\ ~snapshotPending') =>
          \A d \in Collection(store, boardId) :
            \E i \in DOMAIN allStrokes' :
              /\ allStrokes'[i].id = d.docId
              /\ allStrokes'[i].points = d.data.points]_vars
  /\ [](\A m \in DOMAIN offscreen.content : Len(offscreen.content[m].points) >= 2)
  /\ [](\A m \in DOMAIN canvas.content : Len(canvas.content[m].points) >= 2)

\* The one-point chunk of a tap was stored and delivered, the list holds it
\* and the recompose of that list left both canvases blank.
C29_Witness ==
  /\ ~snapshotPending
  /\ \E i \in DOMAIN allStrokes :
       allStrokes[i].uid = LocalUid /\ Len(allStrokes[i].points) = 1
  /\ \A i \in DOMAIN allStrokes : Len(allStrokes[i].points) = 1
  /\ offscreen.content = <<>>
  /\ canvas.content = <<>>

\* Nothing is under way that could still change the list or the persistent
\* layer: no snapshot to deliver, no resize timer to fire, no board clear in
\* progress.
NothingPending ==
  /\ ~snapshotPending
  /\ timers = <<>>
  /\ clearState.pc \notin {"enumerating", "deleting"}
  /\ clearState.toDelete = {}

\* C30: whenever no snapshot, resize timer or deletion is pending, the local
\* list is the snapshot delivered last, which is the content of the store,
\* and the persistent layer is the rendering of exactly that list.
C30_ListConvergesToStore ==
  NothingPending
  => /\ allStrokes = subscribeToStrokes(Collection(store, boardId))
     /\ offscreen.content = DrawAll(offscreen.scale, allStrokes, 1)

====
